---- MODULE Spec2Model ----
(***************************************************************************)
(* Zerynth VM interface (lang.h) and hardware abstraction layer (vhal.h):  *)
(* tagged value handles, the creation of sequences, hash collections       *)
(* (PDICT / PSET / PFSET), native argument marshaling (parse_py_args),     *)
(* the ERR_ and VHAL_ result codes and the I2C transfer calls.             *)
(*                                                                         *)
(* lang.h documents the interface only; the bodies of the psequence_*,     *)
(* phash_* and parse_py_args routines live in headers which lang.h         *)
(* includes, and the values of the ERR_* macros in pexc.h.  The hash       *)
(* table algorithm below follows section 4.4 of the design specification   *)
(* word by word: open addressing over a handle sequence, tombstones on     *)
(* delete, rehash into a doubled table.                                    *)
(***************************************************************************)
EXTENDS Integers, Sequences, FiniteSets, TLC

VARIABLES
    htype,      \* PTYPE of the hash collection: PDICT, PSET or PFSET
    built,      \* FALSE while a frozenset is still being constructed
    table,      \* the backing handle sequence, one slot per index
    elements,   \* PHASH_ELEMENTS: the element counter kept next to the table
    ret,        \* result of the last operation on the collection
    abs,        \* history: the abstract key -> value function of the calls made
    hist,       \* history: the last mutating calls, newest last
    rh,         \* history: the tables before and after the last rehash
    it,         \* history: the complete iterations made since the last put or delete
    owner       \* the thread holding the lock of the collection, 0 when free

hvars == <<htype, built, table, elements, ret, abs, hist, rh, it, owner>>

VARIABLES
    fmt,        \* parse_py_args: the format string, one code per position
    args,       \* parse_py_args: the PObject array (nargs is its length)
    dflt,       \* parse_py_args: the default values passed for optional codes
    out,        \* parse_py_args: what the output varargs point to, per position
    pos,        \* parse_py_args: the position being converted
    pret,       \* parse_py_args: the return value
    ppc         \* parse_py_args: "run" while converting, "done" once returned

avars == <<fmt, args, dflt, out, pos, pret, ppc>>

VARIABLES
    x,          \* the integer handed to PSMALLINT_NEW
    hnd,        \* the handle PSMALLINT_NEW returned
    val,        \* the integer PSMALLINT_VALUE returned
    npc         \* "new", then "enc" after encoding, "dec" after decoding

nvars == <<x, hnd, val, npc>>

VARIABLES
    align,      \* the alignment of PObject pointers on this architecture
    heap,       \* the PObjects allocated so far, oldest first
    brk,        \* the first free address of the heap
    sret        \* the last creation call and the pointer it returned

svars == <<align, heap, brk, sret>>

VARIABLES
    tlen,       \* the caller's variable named tlen, if it has one
    hwinit,     \* the number pexc.h gives ERR_HARDWARE_INITIALIZATION_ERROR
    icall,      \* the I2C call as the caller wrote it
    xfer,       \* the arguments vhalI2CTransmit runs with
    vret,       \* the VHAL code the transfer returned
    nret,       \* the code the C_NATIVE function returned to the VM
    exc,        \* the exception the VM raised for that code
    ipc,        \* "idle", then "xfer", "ret", "raise", "done" along a native call
    left,       \* the bytes of the transfer still to be written or read
    idle,       \* the time the bus has been inactive since the last byte
    oth         \* the progress of another thread of the VM

ivars == <<tlen, hwinit, icall, xfer, vret, nret, exc, ipc, left, idle, oth>>

VARIABLES
    sfld,       \* the five fields handed to SERIAL_CFG
    cfg,        \* the configuration word SERIAL_CFG evaluated to
    sget,       \* what the SERIAL_CFG_ accessors read back from cfg
    cpc         \* "new", then "cfg" after packing, "get" after reading back

cvars == <<sfld, cfg, sget, cpc>>

vars == <<hvars, avars, nvars, svars, ivars, cvars>>

-----------------------------------------------------------------------------
(* Bounds of the model *)

MaxKey == 3
MaxVal == 2
MaxInitSize == 3
\* tables longer than MaxSize are looked up but not changed any further
MaxSize == 4

\* keys are multiples of KeyStep, so that distinct keys share their first
\* slot in some tables and not in others
KeyStep == 2
Keys == {KeyStep * i : i \in 1..MaxKey}
Vals == 1..MaxVal

-----------------------------------------------------------------------------
(* Types and result codes *)

PDICT == "PDICT"
PSET == "PSET"
PFSET == "PFSET"

ERR_OK == "ERR_OK"
ERR_TYPE_EXC == "ERR_TYPE_EXC"

\* the not-found sentinel
NULL == 0

-----------------------------------------------------------------------------
(* Value handles: a 32 bit word, kept as a signed 32 bit integer *)

WordBits == 32
SmallIntBits == 30

Half == 2 ^ (WordBits - 2)
MinSmallInt == -(2 ^ (SmallIntBits - 1))
MaxSmallInt == 2 ^ (SmallIntBits - 1) - 1

PSMALLINT == "PSMALLINT"
PINTEGER == "PINTEGER"
PFLOAT == "PFLOAT"
PBOOL == "PBOOL"
PSTRING == "PSTRING"
PBYTES == "PBYTES"
PBYTEARRAY == "PBYTEARRAY"
PSHORTS == "PSHORTS"
PSHORTARRAY == "PSHORTARRAY"
PLIST == "PLIST"
PTUPLE == "PTUPLE"
PNONE == "PNONE"

\* tagged handles have the least significant bit set
IS_TAGGED(w) == w % 2 = 1

\* (x << 1) | 1 on a 32 bit word, no overflow check: bit 30 of x becomes
\* the sign bit of the handle and the bits above it are lost
PSMALLINT_NEW(i) ==
    LET low == i % Half
        top == (i \div Half) % 2
        w == 2 * low + 1
    IN  IF top = 1 THEN (w - Half) - Half ELSE w

\* variant: the handle divided by two, rounding towards zero
PSMALLINT_VALUE_trunc(w) == IF w < 0 THEN -((-w) \div 2) ELSE w \div 2

\* the handle shifted right by one, sign preserved
PSMALLINT_VALUE(w) == (w - (w % 2)) \div 2

\* a tagged handle is a small integer when its payload is a 30 bit signed
\* number; the tagged handles outside that range carry the other tagged types
IS_PSMALLINT(w) ==
    /\ IS_TAGGED(w)
    /\ PSMALLINT_VALUE(w) >= MinSmallInt
    /\ PSMALLINT_VALUE(w) <= MaxSmallInt

\* the other immediates: a payload just above the small integers, holding a
\* secondary tag in its low TagBits bits and the value above them
TagBits == 5
TagOf(type) == CASE type = PBOOL -> 3 [] type = PNONE -> 25 [] OTHER -> 0
\* variant: the secondary tag and the value next to the primary tag bit
TAGGED_NEW_low(type, v) == 2 * (v * (2 ^ TagBits) + TagOf(type)) + 1

TAGGED_NEW(type, v) ==
    2 * ((MaxSmallInt + 1) + v * (2 ^ TagBits) + TagOf(type)) + 1
TAGTYPE(w) ==
    IF IS_PSMALLINT(w) THEN PSMALLINT
    ELSE LET tag == PSMALLINT_VALUE(w) % (2 ^ TagBits) IN
         CASE tag = TagOf(PBOOL) -> PBOOL
           [] tag = TagOf(PNONE) -> PNONE
           [] OTHER -> "PTAGGED"

PBOOL_TRUE == TAGGED_NEW(PBOOL, 1)
PBOOL_FALSE == TAGGED_NEW(PBOOL, 0)
MAKE_NONE == TAGGED_NEW(PNONE, 0)
IS_BOOL(w) == IS_TAGGED(w) /\ TAGTYPE(w) = PBOOL

\* integers handed to PSMALLINT_NEW: a window around zero and the edges of
\* the 30 bit and 31 bit ranges
MaxInt == 24
IntSamples ==
    (-MaxInt..MaxInt) \cup
    { 42, MinSmallInt, MinSmallInt + 1, MinSmallInt - 1, MaxSmallInt,
      MaxSmallInt - 1, MaxSmallInt + 1, MaxSmallInt + 1 + TagOf(PBOOL),
      Half - 1, Half, -Half, -Half - 1 }

NumIdle == x = 0 /\ hnd = 0 /\ val = 0 /\ npc = "idle"

NumInit ==
    /\ x \in IntSamples
    /\ hnd = 0 /\ val = 0 /\ npc = "new"

\* hnd = PSMALLINT_NEW(x)
Encode ==
    /\ npc = "new"
    /\ hnd' = PSMALLINT_NEW(x)
    /\ npc' = "enc"
    /\ UNCHANGED <<x, val, hvars, avars, svars, ivars, cvars>>

\* val = PSMALLINT_VALUE(hnd)
Decode ==
    /\ npc = "enc"
    /\ val' = PSMALLINT_VALUE(hnd)
    /\ npc' = "dec"
    /\ UNCHANGED <<x, hnd, hvars, avars, svars, ivars, cvars>>

-----------------------------------------------------------------------------
(* PObjects: a handle, and behind an untagged handle the header and data *)

Tagged(w) ==
    [ptr |-> w, type |-> "", i |-> 0, d |-> <<0, 1>>, bytes |-> <<>>,
     elements |-> 0, size |-> 0]
Boxed(addr, type, i, d) ==
    [ptr |-> addr, type |-> type, i |-> i, d |-> d, bytes |-> <<>>,
     elements |-> 0, size |-> 0]
ByteSeq(addr, type, bytes, size) ==
    [ptr |-> addr, type |-> type, i |-> 0, d |-> <<0, 1>>, bytes |-> bytes,
     elements |-> Len(bytes), size |-> size]

PHEADERTYPE(o) == o.type
PTYPE(o) == IF IS_TAGGED(o.ptr) THEN TAGTYPE(o.ptr) ELSE PHEADERTYPE(o)

\* works for PSMALLINT and PINTEGER
INTEGER_VALUE(o) == IF IS_TAGGED(o.ptr) THEN PSMALLINT_VALUE(o.ptr) ELSE o.i
PFLOAT_VALUE(o) == o.d
PSEQUENCE_BYTES(o) == o.bytes
PSEQUENCE_ELEMENTS(o) == o.elements
PSEQUENCE_SIZE(o) == o.size

\* the objects a caller passes: 5, -3, True, False, None, a boxed 7, 2.5 (as
\* the fraction 5/2), "ab", b"x", a bytearray of 1 element with room for 4,
\* and an empty list
Objects ==
    { Tagged(PSMALLINT_NEW(5)), Tagged(PSMALLINT_NEW(-3)),
      Tagged(PBOOL_TRUE), Tagged(PBOOL_FALSE), Tagged(MAKE_NONE),
      Boxed(8, PINTEGER, 7, <<0, 1>>),
      Boxed(16, PFLOAT, 0, <<5, 2>>),
      ByteSeq(24, PSTRING, <<97, 98>>, 2),
      ByteSeq(32, PBYTES, <<120>>, 1),
      ByteSeq(40, PBYTEARRAY, <<1>>, 4),
      ByteSeq(48, PLIST, <<>>, 0) }

-----------------------------------------------------------------------------
(* parse_py_args(fmt, nargs, args, ...) *)

MaxFmt == 2
MaxArgs == 2

Mandatory == {"l", "i", "f", "s", "b"}
Optional == {"L", "I", "F", "S", "B"}
Codes == Mandatory \cup Optional

SeqsUpTo(S, len) == UNION {[1..m -> S] : m \in 0..len}

\* the formats and argument arrays tried: every one up to the bounds, and
\* the two calls of the documentation
Fmts == SeqsUpTo(Codes, MaxFmt) \cup {<<"i", "f", "s", "I">>, <<"i", "s">>}
ArgLists ==
    SeqsUpTo(Objects, MaxArgs) \cup
    { << Tagged(PSMALLINT_NEW(5)), Boxed(16, PFLOAT, 0, <<5, 2>>),
         ByteSeq(24, PSTRING, <<97, 98>>, 2) >>,
      << Tagged(PBOOL_TRUE), ByteSeq(56, PSTRING, <<120>>, 1) >> }
Dflts ==
    { [i |-> 2, d |-> <<1, 2>>, bytes |-> <<100>>],
      [i |-> -1, d |-> <<0, 1>>, bytes |-> <<>>] }

\* variant: an integer code takes every tagged handle for a small integer
Accepts_tagged(c, o) ==
    CASE c \in {"l", "L", "i", "I"} -> IS_TAGGED(o.ptr) \/ PTYPE(o) = PINTEGER
      [] c \in {"f", "F"} -> PTYPE(o) = PFLOAT
      [] c \in {"s", "S", "b", "B"} -> PTYPE(o) \in {PSTRING, PBYTES, PBYTEARRAY}

\* the type the code c asks of the argument at its position
Accepts(c, o) ==
    CASE c \in {"l", "L", "i", "I"} -> PTYPE(o) \in {PSMALLINT, PINTEGER}
      [] c \in {"f", "F"} -> PTYPE(o) = PFLOAT
      [] c \in {"s", "S", "b", "B"} -> PTYPE(o) \in {PSTRING, PBYTES, PBYTEARRAY}

Unset == [t |-> "unset", i |-> 0, d |-> <<0, 1>>, bytes |-> <<>>, len |-> 0]

\* variant: an integer is stored as the handle's word, tag bit included
Convert_raw(c, o) ==
    CASE c \in {"l", "L"} ->
            [Unset EXCEPT !.t = "int64", !.i = IF IS_TAGGED(o.ptr) THEN o.ptr ELSE o.i]
      [] c \in {"i", "I"} ->
            [Unset EXCEPT !.t = "int32", !.i = IF IS_TAGGED(o.ptr) THEN o.ptr ELSE o.i]
      [] c \in {"f", "F"} ->
            [Unset EXCEPT !.t = "double", !.d = PFLOAT_VALUE(o)]
      [] c \in {"s", "S"} ->
            [Unset EXCEPT !.t = "bytes", !.bytes = PSEQUENCE_BYTES(o),
                          !.len = PSEQUENCE_ELEMENTS(o)]
      [] c \in {"b", "B"} ->
            [Unset EXCEPT !.t = "bytes", !.bytes = PSEQUENCE_BYTES(o),
                          !.len = PSEQUENCE_SIZE(o)]

\* what the varargs of code c receive from the argument o
Convert(c, o) ==
    CASE c \in {"l", "L"} ->
            [Unset EXCEPT !.t = "int64", !.i = INTEGER_VALUE(o)]
      [] c \in {"i", "I"} ->
            [Unset EXCEPT !.t = "int32", !.i = INTEGER_VALUE(o)]
      [] c \in {"f", "F"} ->
            [Unset EXCEPT !.t = "double", !.d = PFLOAT_VALUE(o)]
      [] c \in {"s", "S"} ->
            [Unset EXCEPT !.t = "bytes", !.bytes = PSEQUENCE_BYTES(o),
                          !.len = PSEQUENCE_ELEMENTS(o)]
      [] c \in {"b", "B"} ->
            [Unset EXCEPT !.t = "bytes", !.bytes = PSEQUENCE_BYTES(o),
                          !.len = PSEQUENCE_SIZE(o)]

\* what the varargs of the optional code c receive from the default df
Default(c, df) ==
    CASE c = "L" -> [Unset EXCEPT !.t = "int64", !.i = df.i]
      [] c = "I" -> [Unset EXCEPT !.t = "int32", !.i = df.i]
      [] c = "F" -> [Unset EXCEPT !.t = "double", !.d = df.d]
      [] c \in {"S", "B"} -> [Unset EXCEPT !.t = "bytes", !.bytes = df.bytes]

ArgsIdle ==
    /\ fmt = <<>> /\ args = <<>> /\ out = <<>>
    /\ dflt = [i |-> 0, d |-> <<0, 1>>, bytes |-> <<>>]
    /\ pos = 0 /\ pret = 0 /\ ppc = "idle"

ArgsInit ==
    /\ fmt \in Fmts
    /\ args \in ArgLists
    /\ dflt \in Dflts
    /\ out = [j \in 1..Len(fmt) |-> Unset]
    /\ pos = 0 /\ pret = 0 /\ ppc = "run"

\* position pos has an argument of the type its code asks for: convert it
ParseConvert ==
    /\ ppc = "run" /\ pos < Len(fmt) /\ pos < Len(args)
    /\ Accepts(fmt[pos + 1], args[pos + 1])
    /\ out' = [out EXCEPT ![pos + 1] = Convert(fmt[pos + 1], args[pos + 1])]
    /\ pos' = pos + 1
    /\ UNCHANGED <<fmt, args, dflt, pret, ppc, hvars, nvars, svars, ivars, cvars>>

\* position pos has no argument and an optional code: store the default
ParseDefault ==
    /\ ppc = "run" /\ pos < Len(fmt) /\ pos >= Len(args)
    /\ fmt[pos + 1] \in Optional
    /\ out' = [out EXCEPT ![pos + 1] = Default(fmt[pos + 1], dflt)]
    /\ pos' = pos + 1
    /\ UNCHANGED <<fmt, args, dflt, pret, ppc, hvars, nvars, svars, ivars, cvars>>

\* variant: a mismatching argument is passed over and the conversion goes on
ParseMismatch_skip ==
    /\ ppc = "run" /\ pos < Len(fmt) /\ pos < Len(args)
    /\ ~Accepts(fmt[pos + 1], args[pos + 1])
    /\ pos' = pos + 1
    /\ UNCHANGED <<fmt, args, dflt, out, pret, ppc, hvars, nvars, svars, ivars, cvars>>

\* position pos has an argument of another type: stop, return the count
ParseMismatch ==
    /\ ppc = "run" /\ pos < Len(fmt) /\ pos < Len(args)
    /\ ~Accepts(fmt[pos + 1], args[pos + 1])
    /\ pret' = pos
    /\ ppc' = "done"
    /\ UNCHANGED <<fmt, args, dflt, out, pos, hvars, nvars, svars, ivars, cvars>>

\* position pos has no argument and a mandatory code: stop, return the count
ParseMissing ==
    /\ ppc = "run" /\ pos < Len(fmt) /\ pos >= Len(args)
    /\ fmt[pos + 1] \in Mandatory
    /\ pret' = pos
    /\ ppc' = "done"
    /\ UNCHANGED <<fmt, args, dflt, out, pos, hvars, nvars, svars, ivars, cvars>>

\* variant: at the end of fmt the return value counts the arguments
ParseEnd_nargs ==
    /\ ppc = "run" /\ pos = Len(fmt)
    /\ pret' = Len(args)
    /\ ppc' = "done"
    /\ UNCHANGED <<fmt, args, dflt, out, pos, hvars, nvars, svars, ivars, cvars>>

\* the end of fmt: return the number of converted positions
ParseEnd ==
    /\ ppc = "run" /\ pos = Len(fmt)
    /\ pret' = pos
    /\ ppc' = "done"
    /\ UNCHANGED <<fmt, args, dflt, out, pos, hvars, nvars, svars, ivars, cvars>>

-----------------------------------------------------------------------------
(* The heap, and the creation of sequences, dictionaries and sets *)

MaxLen == 2
\* bytes of heap left to the creation functions
HeapSize == 20

\* GCH, the header in front of the data of an untagged PObject, in bytes
GCH == 8
\* a PObject pointer, in bytes
PtrBytes == 4
\* a valid PObject pointer is aligned to 2 or to 4
Aligns == {2, 4}
\* the first address of the heap; address 0 is NULL
HeapBase == 8

ByteTypes == {PSTRING, PBYTES, PBYTEARRAY}
ShortTypes == {PSHORTS, PSHORTARRAY}
ObjectTypes == {PLIST, PTUPLE}
SeqTypes == ByteTypes \cup ShortTypes \cup ObjectTypes
MutableTypes == {PBYTEARRAY, PSHORTARRAY, PLIST}
HashTypes == {PDICT, PSET, PFSET}

\* bytes of one element of a sequence of the given type
ElemBytes(type) ==
    IF type \in ByteTypes THEN 1
    ELSE IF type \in ShortTypes THEN 2
    ELSE PtrBytes

Zeros(n) == [i \in 1..n |-> 0]

\* a sequence behind an untagged handle: the header fields and the storage
Sequence(addr, type, cnt, store) ==
    [ptr |-> addr, type |-> type, i |-> 0, d |-> <<0, 1>>, bytes |-> store,
     elements |-> cnt, size |-> Len(store)]

PSEQUENCE_SHORTS(o) == o.bytes
PSEQUENCE_OBJECTS(o) == o.bytes
PLIST_ITEM(o, i) == PSEQUENCE_OBJECTS(o)[i + 1]
PTUPLE_ITEM(o, i) == PSEQUENCE_OBJECTS(o)[i + 1]
PHASH_ELEMENTS(o) == o.elements

\* variant: a block takes the bytes asked for, whatever the alignment
AllocBytes_packed(need) == need

\* the bytes a block of the heap takes: the bytes asked for, rounded up so
\* that the block after it starts at an aligned address
AllocBytes(need) == ((need + align - 1) \div align) * align

HeapFull(need) == brk + AllocBytes(need) > HeapBase + HeapSize

\* the buf argument: the NULL pointer (0) or the buffer of the caller (1)
Bufs == {0, 1}

\* the memory of the caller: buffer b (b > 0) of bytes, of 16 bit words or of
\* PObjects, all elements different
CallerObjects(b) ==
    <<PSMALLINT_NEW(4 + b), PBOOL_TRUE, MAKE_NONE, PSMALLINT_NEW(-b)>>
CallerBuf(type, b, i) ==
    IF type \in ByteTypes THEN 96 + 16 * (b - 1) + i
    ELSE IF type \in ShortTypes THEN 256 * b + i
    ELSE CallerObjects(b)[((i - 1) % 4) + 1]

NoCall == [fn |-> "none", type |-> "", n |-> 0, buf |-> 0, ptr |-> NULL]
Call(fn, type, n, buf) ==
    [fn |-> fn, type |-> type, n |-> n, buf |-> buf, ptr |-> NULL]

SeqIdle == align = 4 /\ heap = <<>> /\ brk = HeapBase /\ sret = NoCall

SeqInit ==
    /\ align \in Aligns
    /\ heap = <<>> /\ brk = HeapBase /\ sret = NoCall


\* variant: every new sequence is left without elements
psequence_obj_noelems(type, n) ==
    LET room == AllocBytes(GCH + n * ElemBytes(type)) - GCH IN
    IF type \in MutableTypes
    THEN Sequence(brk, type, 0, Zeros(room \div ElemBytes(type)))
    ELSE Sequence(brk, type, 0, Zeros(n))

\* what psequence_new builds at the first free address: a mutable sequence
\* has no elements yet and its storage takes the whole block; an immutable
\* sequence has the elements asked for; the storage is filled with zero
psequence_obj(type, n) ==
    LET room == AllocBytes(GCH + n * ElemBytes(type)) - GCH IN
    IF type \in MutableTypes
    THEN Sequence(brk, type, 0, Zeros(room \div ElemBytes(type)))
    ELSE Sequence(brk, type, n, Zeros(n))

\* variant: the buffer is copied from its second element on
CopyBuf_shifted(o, len, buf) ==
    IF buf = 0 THEN o
    ELSE [o EXCEPT !.bytes =
            [i \in 1..Len(o.bytes) |->
                IF i <= len THEN CallerBuf(o.type, buf, i + 1) ELSE o.bytes[i]]]

\* len elements of buffer buf copied to the start of the storage, unless buf
\* is NULL
CopyBuf(o, len, buf) ==
    IF buf = 0 THEN o
    ELSE [o EXCEPT !.bytes =
            [i \in 1..Len(o.bytes) |->
                IF i <= len THEN CallerBuf(o.type, buf, i) ELSE o.bytes[i]]]

\* an empty table with room for size entries, each a key and, in a
\* dictionary, a value
phash_obj(type, size) ==
    [Sequence(brk, type, 0, Zeros(size)) EXCEPT !.i = 0]
phash_bytes(type, size) ==
    GCH + size * (IF type = PDICT THEN 2 * PtrBytes ELSE PtrBytes)

\* variant: a call that fails keeps what was left of the heap
Create_grab(call, need, obj) ==
    IF HeapFull(need)
    THEN /\ sret' = [call EXCEPT !.ptr = NULL]
         /\ brk' = HeapBase + HeapSize
         /\ UNCHANGED heap
    ELSE /\ heap' = Append(heap, obj)
         /\ brk' = brk + AllocBytes(need)
         /\ sret' = [call EXCEPT !.ptr = brk]

\* the block is taken from the heap and the object built in it, or the heap
\* cannot hold the block and NULL is returned
Create(call, need, obj) ==
    IF HeapFull(need)
    THEN /\ sret' = [call EXCEPT !.ptr = NULL]
         /\ UNCHANGED <<heap, brk>>
    ELSE /\ heap' = Append(heap, obj)
         /\ brk' = brk + AllocBytes(need)
         /\ sret' = [call EXCEPT !.ptr = brk]

\* PObject *psequence_new(uint8_t type, uint16_t elements)
psequence_new(type, n) ==
    /\ Create(Call("psequence_new", type, n, 0),
              GCH + n * ElemBytes(type), psequence_obj(type, n))
    /\ UNCHANGED <<align, hvars, avars, nvars, ivars, cvars>>

\* PObject *pstring_new(uint16_t len, uint8_t *buf)
pstring_new(len, buf) ==
    /\ Create(Call("pstring_new", PSTRING, len, buf),
              GCH + len * ElemBytes(PSTRING),
              CopyBuf(psequence_obj(PSTRING, len), len, buf))
    /\ UNCHANGED <<align, hvars, avars, nvars, ivars, cvars>>

\* PObject *pbytes_new(uint16_t len, uint8_t *buf)
pbytes_new(len, buf) ==
    /\ Create(Call("pbytes_new", PBYTES, len, buf),
              GCH + len * ElemBytes(PBYTES),
              CopyBuf(psequence_obj(PBYTES, len), len, buf))
    /\ UNCHANGED <<align, hvars, avars, nvars, ivars, cvars>>

\* PObject *pshorts_new(uint16_t len, uint16_t *buf)
pshorts_new(len, buf) ==
    /\ Create(Call("pshorts_new", PSHORTS, len, buf),
              GCH + len * ElemBytes(PSHORTS),
              CopyBuf(psequence_obj(PSHORTS, len), len, buf))
    /\ UNCHANGED <<align, hvars, avars, nvars, ivars, cvars>>

\* PObject *ptuple_new(uint16_t len, PObject **buf)
ptuple_new(len, buf) ==
    /\ Create(Call("ptuple_new", PTUPLE, len, buf),
              GCH + len * ElemBytes(PTUPLE),
              CopyBuf(psequence_obj(PTUPLE, len), len, buf))
    /\ UNCHANGED <<align, hvars, avars, nvars, ivars, cvars>>

\* variant: the list is left as psequence_new made it, with no elements
plist_obj_empty(len, buf) == CopyBuf(psequence_obj(PLIST, len), len, buf)

\* what plist_new builds: the objects copied, sequence elements set to len
plist_obj(len, buf) ==
    [CopyBuf(psequence_obj(PLIST, len), len, buf) EXCEPT !.elements = len]

\* PObject *plist_new(uint16_t len, PObject **buf)
plist_new(len, buf) ==
    /\ Create(Call("plist_new", PLIST, len, buf),
              GCH + len * ElemBytes(PLIST), plist_obj(len, buf))
    /\ UNCHANGED <<align, hvars, avars, nvars, ivars, cvars>>

\* PObject *pdict_new(int size)
pdict_new(size) ==
    /\ Create(Call("pdict_new", PDICT, size, 0),
              phash_bytes(PDICT, size), phash_obj(PDICT, size))
    /\ UNCHANGED <<align, hvars, avars, nvars, ivars, cvars>>

\* PObject *pset_new(int type, int size)
pset_new(type, size) ==
    /\ Create(Call("pset_new", type, size, 0),
              phash_bytes(type, size), phash_obj(type, size))
    /\ UNCHANGED <<align, hvars, avars, nvars, ivars, cvars>>

\* the caller has dropped its objects and the collector takes them back
Collect ==
    /\ heap # <<>>
    /\ heap' = <<>>
    /\ brk' = HeapBase
    /\ sret' = Call("collect", "", 0, 0)
    /\ UNCHANGED <<align, hvars, avars, nvars, ivars, cvars>>

\* the sequences on the heap, by their place in it
SeqsOnHeap == {s \in 1..Len(heap) : heap[s].type \in SeqTypes}

\* a macro applied to the sequence at place s of the heap
MacroCall(fn, s, n) ==
    [fn |-> fn, type |-> heap[s].type, n |-> n, buf |-> 0, ptr |-> heap[s].ptr]

\* variant: the element count is set to one more than asked
PSEQUENCE_ELEMENTS_SET_next(s, n) ==
    /\ s \in SeqsOnHeap
    /\ heap' = [heap EXCEPT ![s].elements = n + 1]
    /\ sret' = MacroCall("PSEQUENCE_ELEMENTS_SET", s, n)
    /\ UNCHANGED <<align, brk, hvars, avars, nvars, ivars, cvars>>

\* PSEQUENCE_ELEMENTS_SET(seq,n): set the number of elements of seq to n;
\* neither n nor the type of seq is tested
PSEQUENCE_ELEMENTS_SET(s, n) ==
    /\ s \in SeqsOnHeap
    /\ heap' = [heap EXCEPT ![s].elements = n]
    /\ sret' = MacroCall("PSEQUENCE_ELEMENTS_SET", s, n)
    /\ UNCHANGED <<align, brk, hvars, avars, nvars, ivars, cvars>>

\* PLIST_SET_ITEM(lst,i,item): set the i-th item of the list
PLIST_SET_ITEM(s, i, item) ==
    /\ s \in SeqsOnHeap /\ heap[s].type = PLIST
    /\ i < PSEQUENCE_SIZE(heap[s])
    /\ heap' = [heap EXCEPT ![s].bytes[i + 1] = item]
    /\ sret' = MacroCall("PLIST_SET_ITEM", s, i)
    /\ UNCHANGED <<align, brk, hvars, avars, nvars, ivars, cvars>>

\* PTUPLE_SET_ITEM(lst,i,item): set the i-th item of the tuple
PTUPLE_SET_ITEM(s, i, item) ==
    /\ s \in SeqsOnHeap /\ heap[s].type = PTUPLE
    /\ i < PSEQUENCE_SIZE(heap[s])
    /\ heap' = [heap EXCEPT ![s].bytes[i + 1] = item]
    /\ sret' = MacroCall("PTUPLE_SET_ITEM", s, i)
    /\ UNCHANGED <<align, brk, hvars, avars, nvars, ivars, cvars>>

\* the numbers of elements a caller sets: up to one past the capacity
Counts(s) == 0..(PSEQUENCE_SIZE(heap[s]) + 1)
\* the places of the storage of the sequence at place s
Places(s) == 0..(PSEQUENCE_SIZE(heap[s]) - 1)

\* sequences are created, their element counts and their items are set
NextSeqUse ==
    \/ \E type \in SeqTypes, n \in 0..MaxLen : psequence_new(type, n)
    \/ \E s \in SeqsOnHeap : \E n \in Counts(s) : PSEQUENCE_ELEMENTS_SET(s, n)
    \/ \E s \in SeqsOnHeap : \E i \in Places(s) : PLIST_SET_ITEM(s, i, PBOOL_TRUE)
    \/ \E s \in SeqsOnHeap : \E i \in Places(s) : PTUPLE_SET_ITEM(s, i, PBOOL_TRUE)

NextSeq ==
    \/ \E type \in SeqTypes, n \in 0..MaxLen : psequence_new(type, n)
    \/ \E len \in 0..MaxLen, buf \in Bufs : pstring_new(len, buf)
    \/ \E len \in 0..MaxLen, buf \in Bufs : pbytes_new(len, buf)
    \/ \E len \in 0..MaxLen, buf \in Bufs : pshorts_new(len, buf)
    \/ \E len \in 0..MaxLen, buf \in Bufs : ptuple_new(len, buf)
    \/ \E len \in 0..MaxLen, buf \in Bufs : plist_new(len, buf)
    \/ \E size \in 0..MaxLen : pdict_new(size)
    \/ \E type \in {PSET, PFSET}, size \in 0..MaxLen : pset_new(type, size)
    \/ Collect


-----------------------------------------------------------------------------
(* Result codes: the ERR_* macros of pexc.h and the VHAL_* codes of vhal.h *)

ERR_UNSUPPORTED_EXC == "ERR_UNSUPPORTED_EXC"
ERR_TIMEOUT_EXC == "ERR_TIMEOUT_EXC"
ERR_PERIPHERAL_ERROR_EXC == "ERR_PERIPHERAL_ERROR_EXC"
ERR_PERIPHERAL_INVALID_PIN_EXC == "ERR_PERIPHERAL_INVALID_PIN_EXC"
ERR_PERIPHERAL_INVALID_HARDWARE_STATUS_EXC ==
    "ERR_PERIPHERAL_INVALID_HARDWARE_STATUS_EXC"
ERR_PERIPHERAL_INITIALIZATION_ERROR == "ERR_PERIPHERAL_INITIALIZATION_ERROR"
\* the macro vhal.h negates; lang.h does not document a macro of this name
ERR_HARDWARE_INITIALIZATION_ERROR == "ERR_HARDWARE_INITIALIZATION_ERROR"

\* the macros lang.h documents, in the order it documents them
\* (ERR_IOERROR_EXC is documented twice in a row)
ErrDoc ==
    << ERR_OK, ERR_TYPE_EXC, "ERR_ZERODIV_EXC", "ERR_ATTRIBUTE_EXC",
       "ERR_RUNTIME_EXC", "ERR_VALUE_EXC", "ERR_INDEX_EXC", "ERR_KEY_EXC",
       "ERR_NOT_IMPLEMENTED_EXC", ERR_UNSUPPORTED_EXC, "ERR_OVERFLOW_EXC",
       "ERR_STOP_ITERATION", "ERR_NAME_EXC", "ERR_IOERROR_EXC",
       "ERR_IOERROR_EXC", "ERR_CONNECTION_REF_EXC", "ERR_CONNECTION_RES_EXC",
       "ERR_CONNECTION_ABR_EXC", ERR_TIMEOUT_EXC, ERR_PERIPHERAL_ERROR_EXC,
       ERR_PERIPHERAL_INVALID_PIN_EXC,
       ERR_PERIPHERAL_INVALID_HARDWARE_STATUS_EXC,
       ERR_PERIPHERAL_INITIALIZATION_ERROR >>

ErrNames == {ErrDoc[i] : i \in 1..Len(ErrDoc)}

\* the line of the documentation a macro is first documented at
ErrLine(name) ==
    CHOOSE n \in 1..Len(ErrDoc) :
        ErrDoc[n] = name /\ \A m \in 1..(n - 1) : ErrDoc[m] # name

\* the exception numbers of the documented macros: success is 0 and the
\* failure codes count up from 1, one number for each macro
ErrNumbers ==
    [e \in ErrNames |-> Cardinality({ErrDoc[i] : i \in 1..(ErrLine(e) - 1)})]

\* variant: the codes count up from 1, the success code included
ErrNumber_from1(name) ==
    Cardinality({ErrDoc[i] : i \in 1..ErrLine(name)})

ErrNumber(name) == ErrNumbers[name]

\* a macro pexc.h does not define
Undefined == -1

\* what pexc.h can make of ERR_HARDWARE_INITIALIZATION_ERROR: no such macro,
\* the number of HardwareInitializationError, or a number of its own
HwInitNumbers ==
    { Undefined, ErrNumber(ERR_PERIPHERAL_INITIALIZATION_ERROR),
      ErrNumber(ERR_PERIPHERAL_INITIALIZATION_ERROR) + 1 }

\* the number a macro of pexc.h evaluates to
PexcNumber(name) ==
    IF name = ERR_HARDWARE_INITIALIZATION_ERROR THEN hwinit
    ELSE ErrNumber(name)

VhalNames ==
    { "VHAL_OK", "VHAL_GENERIC_ERROR", "VHAL_INVALID_PIN",
      "VHAL_HARDWARE_STATUS_ERROR", "VHAL_TIMEOUT_ERROR",
      "VHAL_HARDWARE_INITIALIZATION_ERROR", "VHAL_UNSUPPORTED_ERROR" }

\* the macro of pexc.h each VHAL code is defined with
VhalMacro(v) ==
    CASE v = "VHAL_OK" -> ERR_OK
      [] v = "VHAL_GENERIC_ERROR" -> ERR_PERIPHERAL_ERROR_EXC
      [] v = "VHAL_INVALID_PIN" -> ERR_PERIPHERAL_INVALID_PIN_EXC
      [] v = "VHAL_HARDWARE_STATUS_ERROR" ->
            ERR_PERIPHERAL_INVALID_HARDWARE_STATUS_EXC
      [] v = "VHAL_TIMEOUT_ERROR" -> ERR_TIMEOUT_EXC
      [] v = "VHAL_HARDWARE_INITIALIZATION_ERROR" ->
            ERR_HARDWARE_INITIALIZATION_ERROR
      [] v = "VHAL_UNSUPPORTED_ERROR" -> ERR_UNSUPPORTED_EXC

\* a VHAL code can be used when the macro it is defined with exists
VhalDefined(v) == PexcNumber(VhalMacro(v)) # Undefined

\* the value of a VHAL code: VHAL_OK is ERR_OK, the others the negated macro
VhalCode(v) ==
    IF v = "VHAL_OK" THEN PexcNumber(ERR_OK) ELSE -PexcNumber(VhalMacro(v))

\* the documented ERR_* macro of the exception each VHAL code corresponds to
VhalException(v) ==
    CASE v = "VHAL_OK" -> ERR_OK
      [] v = "VHAL_GENERIC_ERROR" -> ERR_PERIPHERAL_ERROR_EXC
      [] v = "VHAL_INVALID_PIN" -> ERR_PERIPHERAL_INVALID_PIN_EXC
      [] v = "VHAL_HARDWARE_STATUS_ERROR" ->
            ERR_PERIPHERAL_INVALID_HARDWARE_STATUS_EXC
      [] v = "VHAL_TIMEOUT_ERROR" -> ERR_TIMEOUT_EXC
      [] v = "VHAL_HARDWARE_INITIALIZATION_ERROR" ->
            ERR_PERIPHERAL_INITIALIZATION_ERROR
      [] v = "VHAL_UNSUPPORTED_ERROR" -> ERR_UNSUPPORTED_EXC

\* the exceptions the VM raises for a code returned by a C_NATIVE function
Raised(code) == {e \in ErrNames \ {ERR_OK} : ErrNumber(e) = code}

-----------------------------------------------------------------------------
(* VHAL: an I2C transfer made by a C_NATIVE function *)

MaxBus == 1
MaxTx == 2
MaxRx == 1
MaxTimeout == 1

\* the arguments of a call of vhalI2CTransmit
I2CArgs(i2c, tx, txlen, rx, rxlen, timeout) ==
    [i2c |-> i2c, tx |-> tx, txlen |-> txlen, rx |-> rx, rxlen |-> rxlen,
     timeout |-> timeout]

NoArgs == I2CArgs(0, NULL, 0, NULL, 0, 0)

\* #define vhalI2CWrite(i2c,tx,txlen,tm) vhalI2CTransmit(i2c,tx,tlen,NULL,0,tm)
\* the third argument is the identifier tlen of the calling code, the
\* parameter txlen is not used
vhalI2CWrite(i2c, tx, txlen, tm) ==
    I2CArgs(i2c, tx, tlen, NULL, 0, tm)

HalIdle ==
    /\ tlen = Undefined /\ hwinit = Undefined
    /\ icall = [fn |-> "none", args |-> NoArgs] /\ xfer = NoArgs
    /\ vret = 0 /\ nret = 0 /\ exc = {} /\ ipc = "idle"
    /\ left = 0 /\ idle = 0 /\ oth = 0

HalInit ==
    /\ tlen \in {Undefined} \cup 0..MaxTx
    /\ hwinit \in HwInitNumbers
    /\ icall = [fn |-> "none", args |-> NoArgs] /\ xfer = NoArgs
    /\ vret = 0 /\ nret = 0 /\ exc = {} /\ ipc = "idle"
    /\ left = 0 /\ idle = 0 /\ oth = 0

\* the native function calls vhalI2CWrite(i2c, tx, txlen, tm)
CallWrite(i2c, tx, txlen, tm) ==
    /\ ipc = "idle"
    /\ tlen # Undefined
    /\ icall' = [fn |-> "vhalI2CWrite", args |-> I2CArgs(i2c, tx, txlen, NULL, 0, tm)]
    /\ xfer' = vhalI2CWrite(i2c, tx, txlen, tm)
    /\ left' = xfer'.txlen + xfer'.rxlen
    /\ idle' = 0
    /\ ipc' = "xfer"
    /\ UNCHANGED <<tlen, hwinit, vret, nret, exc, oth, hvars, avars, nvars, svars, cvars>>

\* the same call where the calling code has no identifier tlen: the
\* expansion of the macro does not compile
CallWriteNoBuild(i2c, tx, txlen, tm) ==
    /\ ipc = "idle"
    /\ tlen = Undefined
    /\ icall' = [fn |-> "vhalI2CWrite", args |-> I2CArgs(i2c, tx, txlen, NULL, 0, tm)]
    /\ ipc' = "nobuild"
    /\ UNCHANGED <<tlen, hwinit, xfer, vret, nret, exc, left, idle, oth, hvars, avars, nvars, svars, cvars>>

\* the native function calls vhalI2CTransmit(i2c, tx, txlen, rx, rxlen, timeout)
CallTransmit(i2c, tx, txlen, rx, rxlen, timeout) ==
    /\ ipc = "idle"
    /\ icall' = [fn |-> "vhalI2CTransmit",
                 args |-> I2CArgs(i2c, tx, txlen, rx, rxlen, timeout)]
    /\ xfer' = I2CArgs(i2c, tx, txlen, rx, rxlen, timeout)
    /\ left' = txlen + rxlen
    /\ idle' = 0
    /\ ipc' = "xfer"
    /\ UNCHANGED <<tlen, hwinit, vret, nret, exc, oth, hvars, avars, nvars, svars, cvars>>

\* the native function calls vhalI2CRead(i2c, buf, len, timeout)
CallRead(i2c, buf, len, timeout) ==
    /\ ipc = "idle"
    /\ icall' = [fn |-> "vhalI2CRead",
                 args |-> I2CArgs(i2c, NULL, 0, buf, len, timeout)]
    /\ xfer' = I2CArgs(i2c, NULL, 0, buf, len, timeout)
    /\ left' = len
    /\ idle' = 0
    /\ ipc' = "xfer"
    /\ UNCHANGED <<tlen, hwinit, vret, nret, exc, oth, hvars, avars, nvars, svars, cvars>>

\* a byte of the transfer is written or read: the bus has been active
BusByte ==
    /\ ipc = "xfer"
    /\ left > 0
    /\ left' = left - 1
    /\ idle' = 0
    /\ UNCHANGED <<tlen, hwinit, icall, xfer, vret, nret, exc, ipc, oth, hvars, avars, nvars, svars, cvars>>

\* variant: a unit of time without a byte leaves the inactivity time at 0
BusIdle_restart ==
    /\ ipc = "xfer"
    /\ left > 0 /\ idle < xfer.timeout
    /\ idle' = 0
    /\ UNCHANGED <<tlen, hwinit, icall, xfer, vret, nret, exc, ipc, left, oth, hvars, avars, nvars, svars, cvars>>

\* a unit of time passes without a byte: the bus has been inactive
BusIdle ==
    /\ ipc = "xfer"
    /\ left > 0 /\ idle < xfer.timeout
    /\ idle' = idle + 1
    /\ UNCHANGED <<tlen, hwinit, icall, xfer, vret, nret, exc, ipc, left, oth, hvars, avars, nvars, svars, cvars>>

\* another thread of the VM runs while the caller waits for the transfer
OtherRun ==
    /\ ipc = "xfer"
    /\ oth' = 1 - oth
    /\ UNCHANGED <<tlen, hwinit, icall, xfer, vret, nret, exc, ipc, left, idle, hvars, avars, nvars, svars, cvars>>

\* when the transfer ends with code v: VHAL_OK after the last byte,
\* VHAL_TIMEOUT_ERROR when the bus has been inactive for timeout, any other
\* code on an error
EndCause(v) ==
    CASE v = "VHAL_OK" -> left = 0
      [] v = "VHAL_TIMEOUT_ERROR" -> left > 0 /\ idle = xfer.timeout
      [] OTHER -> TRUE

\* the transfer ends and returns a VHAL code: 0 on success
TransferEnd(v) ==
    /\ ipc = "xfer"
    /\ VhalDefined(v)
    /\ EndCause(v)
    /\ vret' = VhalCode(v)
    /\ ipc' = "ret"
    /\ UNCHANGED <<tlen, hwinit, icall, xfer, nret, exc, left, idle, oth, hvars, avars, nvars, svars, cvars>>

\* the native function returns: negating the VHAL code gives the exception
\* number
NativeReturn ==
    /\ ipc = "ret"
    /\ nret' = -vret
    /\ ipc' = "raise"
    /\ UNCHANGED <<tlen, hwinit, icall, xfer, vret, exc, left, idle, oth, hvars, avars, nvars, svars, cvars>>

\* the VM raises the exception of the code, none for ERR_OK
Raise ==
    /\ ipc = "raise"
    /\ exc' = Raised(nret)
    /\ ipc' = "done"
    /\ UNCHANGED <<tlen, hwinit, icall, xfer, vret, nret, left, idle, oth, hvars, avars, nvars, svars, cvars>>

NextHal ==
    \/ \E i2c \in 0..MaxBus, tx \in Bufs \ {NULL}, txlen \in 0..MaxTx,
          tm \in 0..MaxTimeout : CallWrite(i2c, tx, txlen, tm)
    \/ \E i2c \in 0..MaxBus, tx \in Bufs \ {NULL}, txlen \in 0..MaxTx,
          tm \in 0..MaxTimeout : CallWriteNoBuild(i2c, tx, txlen, tm)
    \/ \E i2c \in 0..MaxBus, tx \in Bufs \ {NULL}, txlen \in 0..MaxTx,
          rx \in Bufs, rxlen \in 0..MaxRx, tm \in 0..MaxTimeout :
            CallTransmit(i2c, tx, txlen, rx, rxlen, tm)
    \/ \E i2c \in 0..MaxBus, buf \in Bufs \ {NULL}, len \in 0..MaxRx,
          tm \in 0..MaxTimeout : CallRead(i2c, buf, len, tm)
    \/ BusByte
    \/ BusIdle
    \/ OtherRun
    \/ \E v \in VhalNames : TransferEnd(v)
    \/ NativeReturn
    \/ Raise

-----------------------------------------------------------------------------
(* VHAL: the configuration word of a serial port *)

MaxField == 2

\* the values a field of the configuration takes: the settings 0, 1 and 2
\* the header names, and the largest value the four bits of a field hold
FieldMask == 15
FieldVals == 0..MaxField \cup {FieldMask}

\* the C operators of the macros, on non-negative words
RECURSIVE BitOr(_, _)
BitOr(a, b) ==
    IF a = 0 THEN b
    ELSE IF b = 0 THEN a
    ELSE (IF a % 2 = 1 \/ b % 2 = 1 THEN 1 ELSE 0) + 2 * BitOr(a \div 2, b \div 2)
Shl(a, k) == a * 2 ^ k
Shr(a, k) == a \div 2 ^ k
BitAnd0xf(a) == a % (FieldMask + 1)

\* ((parity)| ((stop)<<4) | ((bits)<<8) | ((hw)<<12) | ((other)<<16))
SERIAL_CFG(parity, stop, bits, hw, other) ==
    BitOr(BitOr(BitOr(BitOr(parity, Shl(stop, 4)), Shl(bits, 8)), Shl(hw, 12)),
          Shl(other, 16))
SERIAL_CFG_PARITY(c) == BitAnd0xf(c)
SERIAL_CFG_STOP(c) == BitAnd0xf(Shr(c, 4))
SERIAL_CFG_BITS(c) == BitAnd0xf(Shr(c, 8))
SERIAL_CFG_HW(c) == BitAnd0xf(Shr(c, 12))
\* (((cfg)>>12)): the shift of the hw field, and no mask
SERIAL_CFG_OTHER(c) == Shr(c, 12)

Fields(parity, stop, bits, hw, other) ==
    [parity |-> parity, stop |-> stop, bits |-> bits, hw |-> hw, other |-> other]
NoFields == Fields(0, 0, 0, 0, 0)

SerialIdle == sfld = NoFields /\ cfg = 0 /\ sget = NoFields /\ cpc = "idle"

SerialInit ==
    /\ sfld \in {Fields(p, s, b, h, o) : p \in FieldVals, s \in FieldVals,
                                         b \in FieldVals, h \in FieldVals,
                                         o \in FieldVals}
    /\ cfg = 0 /\ sget = NoFields /\ cpc = "new"

\* the caller builds the configuration word
SerialPack ==
    /\ cpc = "new"
    /\ cfg' = SERIAL_CFG(sfld.parity, sfld.stop, sfld.bits, sfld.hw, sfld.other)
    /\ cpc' = "cfg"
    /\ UNCHANGED <<sfld, sget, hvars, avars, nvars, svars, ivars>>

\* the driver reads the fields back
SerialUnpack ==
    /\ cpc = "cfg"
    /\ sget' = Fields(SERIAL_CFG_PARITY(cfg), SERIAL_CFG_STOP(cfg),
                      SERIAL_CFG_BITS(cfg), SERIAL_CFG_HW(cfg),
                      SERIAL_CFG_OTHER(cfg))
    /\ cpc' = "get"
    /\ UNCHANGED <<sfld, cfg, hvars, avars, nvars, svars, ivars>>

NextSerial == SerialPack \/ SerialUnpack

-----------------------------------------------------------------------------
(* Hash table: slots, probing, insertion, rehash *)

EmptySlot == [st |-> "empty", k |-> 0, v |-> 0]
Tombstone == [st |-> "tomb", k |-> 0, v |-> 0]
LiveSlot(k, v) == [st |-> "live", k |-> k, v |-> v]

\* resize threshold: load factor LoadNum / LoadDen
LoadNum == 3
LoadDen == 4

PHASH_SIZE(t) == Len(t)
PHASH_LIVE(t) == Cardinality({i \in 1..Len(t) : t[i].st = "live"})

\* canonical hash of a small integer key, and the slot it derives
phash_hash(k) == k
phash_slot(t, k) == phash_hash(k) % Len(t)

phash_empty(size) == [i \in 1..size |-> EmptySlot]

\* probe of put: from slot i, at most n slots, until an empty slot, a
\* tombstone or a matching entry is found; -1 when every slot was visited
RECURSIVE phash_probe_put(_, _, _, _)
phash_probe_put(t, k, i, n) ==
    IF n = 0 THEN -1
    ELSE LET s == t[i + 1] IN
         IF s.st = "empty" \/ s.st = "tomb" \/ (s.st = "live" /\ s.k = k)
         THEN i
         ELSE phash_probe_put(t, k, (i + 1) % Len(t), n - 1)

\* probe of get and delete: same sequence; stops at an empty slot (not
\* found) or at a matching entry, passes over tombstones
RECURSIVE phash_probe_get(_, _, _, _)
phash_probe_get(t, k, i, n) ==
    IF n = 0 THEN -1
    ELSE LET s == t[i + 1] IN
         IF s.st = "empty" THEN -1
         ELSE IF s.st = "live" /\ s.k = k THEN i
         ELSE phash_probe_get(t, k, (i + 1) % Len(t), n - 1)

phash_find_put(t, k) == phash_probe_put(t, k, phash_slot(t, k), Len(t))
\* variant: the probe of get gives up after the first slot
phash_find_get_once(t, k) == phash_probe_get(t, k, phash_slot(t, k), 1)

phash_find_get(t, k) == phash_probe_get(t, k, phash_slot(t, k), Len(t))

\* store (k, v) in the slot the put probe stops at
phash_insert(t, k, v) ==
    LET i == phash_find_put(t, k) IN
    IF i = -1 THEN t ELSE [t EXCEPT ![i + 1] = LiveSlot(k, v)]

\* reinsert the live entries of slots j..Len(old) of old into new
RECURSIVE phash_reinsert(_, _, _)
phash_reinsert(old, new, j) ==
    IF j > Len(old) THEN new
    ELSE IF old[j].st = "live"
         THEN phash_reinsert(old, phash_insert(new, old[j].k, old[j].v), j + 1)
         ELSE phash_reinsert(old, new, j + 1)

\* variant: the table grows by one slot
phash_newsize_next(size) == size + 1

\* the capacity of the table a rehash builds: twice the old one
phash_newsize(size) == 2 * size

\* rehash into a larger table: live entries reinserted, tombstones dropped
phash_rehash(t) == phash_reinsert(t, phash_empty(phash_newsize(Len(t))), 1)

\* variant: the threshold is tested on the count before the insertion
phash_overload_late(cnt, size) == (cnt - 1) * LoadDen > LoadNum * size

\* would one more element exceed the resize threshold?
phash_overload(cnt, size) == cnt * LoadDen > LoadNum * size

\* iteration: the entries of the slots j.. of t, in the order of the slots
RECURSIVE phash_iter(_, _)
phash_iter(t, j) ==
    IF j > Len(t) THEN <<>>
    ELSE (IF t[j].st = "live"
          THEN <<[slot |-> j - 1, k |-> t[j].k, v |-> t[j].v]>>
          ELSE <<>>) \o phash_iter(t, j + 1)

\* variant: the iteration starts at the second slot
phash_items_late(t) == phash_iter(t, 2)

\* a complete iteration over the collection
phash_items(t) == phash_iter(t, 1)

\* get(key): the associated value or the not-found sentinel
phash_get(t, k) ==
    LET i == phash_find_get(t, k) IN
    IF i = -1 THEN NULL ELSE t[i + 1].v

-----------------------------------------------------------------------------
(* History bookkeeping *)

\* hist keeps the longest suffix of the mutating calls that is a prefix of
\* put(a), delete(a), put(b)
PushPut(h, k) ==
    IF Len(h) = 2 /\ h[1].k # k
    THEN Append(h, [op |-> "put", k |-> k])
    ELSE <<[op |-> "put", k |-> k]>>
PushDel(h, k) ==
    IF h # <<>> /\ h[Len(h)] = [op |-> "put", k |-> k]
    THEN <<h[Len(h)], [op |-> "del", k |-> k]>>
    ELSE <<>>
NoRehash == [done |-> FALSE, before |-> <<>>, after |-> <<>>]

\* it counts the complete iterations made since the last put or delete, up
\* to two, keeps what the first and the second of them visited, and whether
\* a get was made between the two
NoIter == [n |-> 0, first |-> <<>>, second |-> <<>>, gets |-> FALSE]
IterGet(h) == IF h.n = 1 THEN [h EXCEPT !.gets = TRUE] ELSE h

-----------------------------------------------------------------------------
(* Operations on the collection *)

\* pdict_new(size) / pset_new(type, size)
Init ==
    /\ htype \in {PDICT, PSET, PFSET}
    /\ built = (htype # PFSET)
    /\ \E size \in 1..MaxInitSize : table = phash_empty(size)
    /\ elements = 0
    /\ ret = [op |-> "new", k |-> 0, code |-> ERR_OK, val |-> NULL]
    /\ abs = [k \in Keys |-> NULL]
    /\ hist = <<>>
    /\ rh = NoRehash
    /\ it = NoIter
    /\ owner = 0
    /\ ArgsIdle /\ NumIdle /\ SeqIdle /\ HalIdle /\ SerialIdle

\* the store of put: probe; replace on a match; otherwise rehash when the
\* insertion would exceed the threshold, then take the slot the probe finds
PutStore(k, v) ==
    LET i == phash_find_put(table, k)
        match == i # -1 /\ table[i + 1].st = "live"
        grow == ~match /\ phash_overload(elements + 1, Len(table))
        t1 == IF grow THEN phash_rehash(table) ELSE table
        n1 == IF grow THEN PHASH_LIVE(t1) ELSE elements
        j == phash_find_put(t1, k)
        fresh == j = -1 \/ t1[j + 1].st # "live"
    IN  /\ table' = (IF match /\ htype # PDICT THEN table ELSE phash_insert(t1, k, v))
        /\ elements' = (IF match THEN elements ELSE IF fresh THEN n1 + 1 ELSE n1)
        /\ rh' = (IF grow THEN [done |-> TRUE, before |-> table, after |-> t1]
                  ELSE NoRehash)

\* pdict_put(f, k, v) / pset_put(f, k) on a mutable collection
Put(k, v) ==
    /\ htype \in {PDICT, PSET}
    /\ Len(table) <= MaxSize
    /\ PutStore(k, v)
    /\ ret' = [op |-> "put", k |-> k, code |-> ERR_OK, val |-> v]
    /\ abs' = [abs EXCEPT ![k] = v]
    /\ hist' = PushPut(hist, k)
    /\ it' = NoIter
    /\ UNCHANGED <<owner, htype, built, avars, nvars, svars, ivars, cvars>>

\* the put of k has to rehash: k is not found and one more element would
\* exceed the threshold
PutGrows(k) ==
    LET i == phash_find_put(table, k)
        match == i # -1 /\ table[i + 1].st = "live"
    IN  ~match /\ phash_overload(elements + 1, Len(table))

\* the result of a put that could not allocate
PUT_FAILED == "allocation failure"

\* variant: the put that could not allocate the larger table stores its
\* entry in the old one
PutNoMem_stores(k, v) ==
    /\ htype \in {PDICT, PSET}
    /\ Len(table) <= MaxSize
    /\ PutGrows(k)
    /\ table' = phash_insert(table, k, v)
    /\ elements' = elements + 1
    /\ ret' = [op |-> "put", k |-> k, code |-> PUT_FAILED, val |-> NULL]
    /\ rh' = NoRehash
    /\ it' = NoIter
    /\ UNCHANGED <<owner, htype, built, abs, hist, avars, nvars, svars, ivars, cvars>>

\* pdict_put / pset_put when the rehash cannot allocate the larger table:
\* the allocation comes first, the old table has not been touched yet, and
\* the put reports the failure
PutNoMem(k, v) ==
    /\ htype \in {PDICT, PSET}
    /\ Len(table) <= MaxSize
    /\ PutGrows(k)
    /\ ret' = [op |-> "put", k |-> k, code |-> PUT_FAILED, val |-> NULL]
    /\ rh' = NoRehash
    /\ it' = NoIter
    /\ UNCHANGED <<owner, htype, built, table, elements, abs, hist, avars, nvars, svars, ivars, cvars>>

\* variant: delete leaves the slot empty
Del_clears(k) ==
    /\ htype \in {PDICT, PSET}
    /\ Len(table) <= MaxSize
    /\ LET i == phash_find_get(table, k) IN
        /\ table' = (IF i = -1 THEN table ELSE [table EXCEPT ![i + 1] = EmptySlot])
        /\ elements' = (IF i = -1 THEN elements ELSE elements - 1)
        /\ ret' = [op |-> "del", k |-> k, code |-> ERR_OK,
                   val |-> IF i = -1 THEN NULL ELSE table[i + 1].v]
    /\ abs' = [abs EXCEPT ![k] = NULL]
    /\ hist' = PushDel(hist, k)
    /\ rh' = NoRehash
    /\ it' = NoIter
    /\ UNCHANGED <<owner, htype, built, avars, nvars, svars, ivars, cvars>>

\* pdict_del(f, k) / pset_del(f, k) on a mutable collection
Del(k) ==
    /\ htype \in {PDICT, PSET}
    /\ Len(table) <= MaxSize
    /\ LET i == phash_find_get(table, k) IN
        /\ table' = (IF i = -1 THEN table ELSE [table EXCEPT ![i + 1] = Tombstone])
        /\ elements' = (IF i = -1 THEN elements ELSE elements - 1)
        /\ ret' = [op |-> "del", k |-> k, code |-> ERR_OK,
                   val |-> IF i = -1 THEN NULL ELSE table[i + 1].v]
    /\ abs' = [abs EXCEPT ![k] = NULL]
    /\ hist' = PushDel(hist, k)
    /\ rh' = NoRehash
    /\ it' = NoIter
    /\ UNCHANGED <<owner, htype, built, avars, nvars, svars, ivars, cvars>>

\* pdict_get(f, k) / pset_get(f, k)
Get(k) ==
    /\ ret' = [op |-> "get", k |-> k, code |-> ERR_OK, val |-> phash_get(table, k)]
    /\ it' = IterGet(it)
    /\ UNCHANGED <<owner, htype, built, table, elements, abs, hist, rh, avars, nvars, svars, ivars, cvars>>

\* construction of a frozenset: the constructor stores its items
FsetAdd(k) ==
    /\ htype = PFSET /\ ~built
    /\ Len(table) <= MaxSize
    /\ PutStore(k, k)
    /\ ret' = [op |-> "new", k |-> k, code |-> ERR_OK, val |-> k]
    /\ abs' = [abs EXCEPT ![k] = k]
    /\ it' = NoIter
    /\ UNCHANGED <<owner, htype, built, hist, avars, nvars, svars, ivars, cvars>>

\* construction of a frozenset ends: the collection is handed to the caller
FsetDone ==
    /\ htype = PFSET /\ ~built
    /\ built' = TRUE
    /\ rh' = NoRehash
    /\ UNCHANGED it
    /\ UNCHANGED <<owner, htype, table, elements, ret, abs, hist, avars, nvars, svars, ivars, cvars>>

\* variant: put on a frozen collection stores the item like pset_put
FrozenPut_stores(k) ==
    /\ htype = PFSET /\ built
    /\ PutStore(k, k)
    /\ ret' = [op |-> "put", k |-> k, code |-> ERR_OK, val |-> k]
    /\ abs' = [abs EXCEPT ![k] = k]
    /\ it' = NoIter
    /\ UNCHANGED <<owner, htype, built, hist, avars, nvars, svars, ivars, cvars>>

\* put on a frozen collection: rejected, nothing stored
FrozenPut(k) ==
    /\ htype = PFSET /\ built
    /\ ret' = [op |-> "put", k |-> k, code |-> ERR_TYPE_EXC, val |-> NULL]
    /\ it' = NoIter
    /\ UNCHANGED <<owner, htype, built, table, elements, abs, hist, rh, avars, nvars, svars, ivars, cvars>>

\* delete on a frozen collection: rejected, nothing removed
FrozenDel(k) ==
    /\ htype = PFSET /\ built
    /\ ret' = [op |-> "del", k |-> k, code |-> ERR_TYPE_EXC, val |-> NULL]
    /\ it' = NoIter
    /\ UNCHANGED <<owner, htype, built, table, elements, abs, hist, rh, avars, nvars, svars, ivars, cvars>>

\* a complete iteration over the collection, the first or the second since
\* the last put or delete
Iterate ==
    /\ built
    /\ it.n < 2
    /\ it' = (IF it.n = 0
              THEN [it EXCEPT !.n = 1, !.first = phash_items(table)]
              ELSE [it EXCEPT !.n = 2, !.second = phash_items(table)])
    /\ UNCHANGED <<owner, htype, built, table, elements, ret, abs, hist, rh, avars, nvars, svars, ivars, cvars>>

\* the threads of the application that share the collection
MaxThreads == 2
Threads == 1..MaxThreads

\* a thread takes the lock the application keeps for the collection
Lock(t) ==
    /\ owner = 0
    /\ owner' = t
    /\ UNCHANGED <<htype, built, table, elements, ret, abs, hist, rh, it, avars, nvars, svars, ivars, cvars>>

\* the thread that holds the lock gives it back
Unlock(t) ==
    /\ owner = t
    /\ owner' = 0
    /\ UNCHANGED <<htype, built, table, elements, ret, abs, hist, rh, it, avars, nvars, svars, ivars, cvars>>

\* put, delete and get made by the thread that holds the lock
LockedPut(t, k, v) == owner = t /\ Put(k, v)
LockedDel(t, k) == owner = t /\ Del(k)
LockedGet(t, k) == owner = t /\ Get(k)

Next ==
    \/ \E k \in Keys, v \in Vals : Put(k, IF htype = PSET THEN k ELSE v)
    \/ \E k \in Keys, v \in Vals : PutNoMem(k, IF htype = PSET THEN k ELSE v)
    \/ \E k \in Keys : Del(k)
    \/ \E k \in Keys : Get(k)
    \/ \E k \in Keys : FsetAdd(k)
    \/ FsetDone
    \/ \E k \in Keys : FrozenPut(k)
    \/ \E k \in Keys : FrozenDel(k)

Spec == Init /\ [][Next]_vars

\* the hash collection left alone
HashIdle ==
    /\ htype = PDICT /\ built = TRUE /\ table = phash_empty(1) /\ elements = 0
    /\ ret = [op |-> "new", k |-> 0, code |-> ERR_OK, val |-> NULL]
    /\ abs = [k \in Keys |-> NULL] /\ hist = <<>> /\ rh = NoRehash
    /\ it = NoIter /\ owner = 0

InitArgs == ArgsInit /\ HashIdle /\ NumIdle /\ SeqIdle /\ HalIdle /\ SerialIdle
NextArgs ==
    \/ ParseConvert
    \/ ParseDefault
    \/ ParseMismatch
    \/ ParseMissing
    \/ ParseEnd
SpecArgs == InitArgs /\ [][NextArgs]_vars

InitNum == NumInit /\ HashIdle /\ ArgsIdle /\ SeqIdle /\ HalIdle /\ SerialIdle
NextNum ==
    \/ Encode
    \/ Decode
SpecNum == InitNum /\ [][NextNum]_vars

InitSeq == SeqInit /\ HashIdle /\ ArgsIdle /\ NumIdle /\ HalIdle /\ SerialIdle
SpecSeq == InitSeq /\ [][NextSeq]_vars

InitHal == HalInit /\ HashIdle /\ ArgsIdle /\ NumIdle /\ SeqIdle /\ SerialIdle
SpecHal == InitHal /\ [][NextHal]_vars

\* a dictionary or a set that is put to, deleted from, looked up and iterated
InitIter == Init /\ htype \in {PDICT, PSET}
NextIter ==
    \/ \E k \in Keys, v \in Vals : Put(k, IF htype = PSET THEN k ELSE v)
    \/ \E k \in Keys : Del(k)
    \/ \E k \in Keys : Get(k)
    \/ Iterate
SpecIter == InitIter /\ [][NextIter]_vars

\* a dictionary or a set shared by threads that serialize their calls
InitLock == Init /\ htype \in {PDICT, PSET}
NextLock ==
    \/ \E t \in Threads : Lock(t)
    \/ \E t \in Threads : Unlock(t)
    \/ \E t \in Threads, k \in Keys, v \in Vals :
          LockedPut(t, k, IF htype = PSET THEN k ELSE v)
    \/ \E t \in Threads, k \in Keys : LockedDel(t, k)
    \/ \E t \in Threads, k \in Keys : LockedGet(t, k)
SpecLock == InitLock /\ [][NextLock]_vars

SpecSeqUse == InitSeq /\ [][NextSeqUse]_vars

\* time passes on the bus and the driver returns when the transfer is over
\* or has timed out; bytes and bus errors may or may not come
Clock == BusIdle \/ TransferEnd("VHAL_OK") \/ TransferEnd("VHAL_TIMEOUT_ERROR")
SpecHalLive == InitHal /\ [][NextHal]_vars /\ WF_vars(Clock)

InitSerial ==
    SerialInit /\ HashIdle /\ ArgsIdle /\ NumIdle /\ SeqIdle /\ HalIdle
SpecSerial == InitSerial /\ [][NextSerial]_vars

-----------------------------------------------------------------------------
(* Properties of the hash collections *)

Mutable == htype \in {PDICT, PSET}
Duplicate(t) ==
    \E i, j \in 1..Len(t) :
        i # j /\ t[i].st = "live" /\ t[j].st = "live" /\ t[i].k = t[j].k

\* C1: on a mutable mapping get(k) returns the value of the latest put(k, .)
\* not followed by delete(k), and NULL for a key never put or deleted last
C1_GetIsAbstractMap ==
    Mutable => \A k \in Keys : phash_get(table, k) = abs[k]

\* C2: after put(k1), delete(k1), put(k2) with k1 # k2 sharing their first
\* slot, get(k1) returns NULL and get(k2) returns the value put for k2
C2_NoResurrection ==
    (Mutable /\ Len(hist) = 3
        /\ phash_slot(table, hist[1].k) = phash_slot(table, hist[3].k))
    => /\ phash_get(table, hist[1].k) = NULL
       /\ phash_get(table, hist[3].k) = abs[hist[3].k]

\* C3: right after a put returns, occupied slots / capacity does not exceed
\* the resize threshold LoadNum / LoadDen; the occupied slots are the slots
\* holding an entry, which PHASH_ELEMENTS counts
C3_LoadBounded ==
    (ret.op = "put" /\ ret.code = ERR_OK)
    => /\ PHASH_LIVE(table) * LoadDen <= LoadNum * PHASH_SIZE(table)
       /\ elements = PHASH_LIVE(table)

C3_Witness ==
    /\ ret.op = "put" /\ ret.code = ERR_OK /\ rh.done
    /\ PHASH_LIVE(table) = 3 /\ PHASH_SIZE(table) = 8

\* C4: a rehash leaves the live entries unchanged: every key has the same
\* associated value (or none) in the table before and in the table after
C4_RehashKeepsEntries ==
    rh.done => \A k \in Keys : phash_get(rh.after, k) = phash_get(rh.before, k)

\* C5: no two live slots of the backing table hold equal keys
C5_NoDuplicateKeys == ~Duplicate(table)

C16_DeleteFrame ==
    [][(Mutable /\ ret'.op = "del")
        => /\ ret'.val = phash_get(table, ret'.k)
           /\ \A k2 \in Keys \ {ret'.k} :
                phash_get(table', k2) = phash_get(table, k2)]_vars

\* a key has been deleted from the first slot of another key, which is found
\* behind the tombstone
C16_Witness ==
    /\ Mutable /\ ret.op = "del" /\ ret.val # NULL
    /\ \E k2 \in Keys \ {ret.k} :
        /\ phash_slot(table, k2) = phash_slot(table, ret.k)
        /\ table[phash_slot(table, k2) + 1].st = "tomb"
        /\ phash_get(table, k2) # NULL

-----------------------------------------------------------------------------
(* Properties of parse_py_args *)

Min(a, b) == IF a < b THEN a ELSE b
Supplied == 1..Min(Len(fmt), Len(args))
Returned == ppc = "done"

\* the integer an object stands for, found by encoding rather than decoding
IntOf(o) ==
    IF IS_TAGGED(o.ptr)
    THEN CHOOSE v \in -8..8 : PSMALLINT_NEW(v) = o.ptr
    ELSE o.i

\* what a caller expects in the outputs of position j after a conversion
Expected(j) ==
    LET c == fmt[j]
        o == args[j]
    IN  CASE c \in {"l", "L"} -> out[j].t = "int64" /\ out[j].i = IntOf(o)
          [] c \in {"i", "I"} -> out[j].t = "int32" /\ out[j].i = IntOf(o)
          [] c \in {"f", "F"} -> out[j].t = "double" /\ out[j].d = o.d
          [] c \in {"s", "S"} -> /\ out[j].t = "bytes" /\ out[j].bytes = o.bytes
                                 /\ out[j].len = Len(o.bytes)
          [] c \in {"b", "B"} -> /\ out[j].t = "bytes" /\ out[j].bytes = o.bytes
                                 /\ out[j].len = o.size

ExpectedDefault(j) ==
    LET c == fmt[j] IN
    CASE c \in {"L", "I"} -> out[j].i = dflt.i
      [] c = "F" -> out[j].d = dflt.d
      [] c \in {"S", "B"} -> out[j].bytes = dflt.bytes
      [] OTHER -> FALSE

BadMandatory(j) == fmt[j] \in Mandatory /\ ~Accepts(fmt[j], args[j])
BadAny(j) == ~Accepts(fmt[j], args[j])

StoppedAt(k) ==
    /\ pret = k - 1
    /\ pret < Len(fmt)
    /\ \A j \in k..Len(fmt) : out[j] = Unset

\* C7 as stated: the conversion stops at the first supplied position whose
\* argument does not match a mandatory code, and returns that position
C7_StopsAtFirstMandatoryMismatch ==
    Returned =>
        \A k \in Supplied :
            (BadMandatory(k) /\ \A j \in 1..(k - 1) : ~BadMandatory(j))
            => StoppedAt(k)

\* C7 amended: the conversion stops at the first supplied position whose
\* argument does not match its code, mandatory or optional, returns the
\* number of positions converted before it, and converts nothing after it
C7_StopsAtFirstMismatch ==
    Returned =>
        \A k \in Supplied :
            (BadAny(k) /\ \A j \in 1..(k - 1) : ~BadAny(j))
            => StoppedAt(k)

C7_Witness ==
    /\ Returned /\ Len(fmt) = 2 /\ Len(args) = 2
    /\ fmt[2] = "s" /\ ~BadAny(1) /\ BadMandatory(2)
    /\ pret = 1 /\ out[1] # Unset /\ out[2] = Unset

\* C8: all supplied arguments match and every position without an argument
\* is optional: the return value is the format length, supplied positions
\* hold the converted values, the others hold the caller's defaults
C8_ConvertsAndDefaults ==
    (Returned
        /\ (\A j \in Supplied : ~BadAny(j))
        /\ (\A j \in (Len(args) + 1)..Len(fmt) : fmt[j] \in Optional))
    => /\ pret = Len(fmt)
       /\ \A j \in Supplied : Expected(j)
       /\ \A j \in (Len(args) + 1)..Len(fmt) : ExpectedDefault(j)

\* "ifsI" with [5, 2.5, "ab"] and default 2 returns 4 with 5, 2.5, "ab"/2, 2
C8_Witness ==
    /\ Returned /\ fmt = <<"i", "f", "s", "I">> /\ Len(args) = 3 /\ dflt.i = 2
    /\ pret = 4
    /\ out[1].i = 5 /\ out[2].d = <<5, 2>>
    /\ out[3].bytes = <<97, 98>> /\ out[3].len = 2
    /\ out[4].i = 2

\* the first position that stops the conversion: an argument of another
\* type, or no argument under a mandatory code; past the format if none
Stops(j) ==
    IF j <= Len(args) THEN ~Accepts(fmt[j], args[j]) ELSE fmt[j] \in Mandatory
StopPos ==
    IF \E j \in 1..Len(fmt) : Stops(j)
    THEN CHOOSE j \in 1..Len(fmt) : Stops(j) /\ \A i \in 1..(j - 1) : ~Stops(i)
    ELSE Len(fmt) + 1

\* C27: with a format of N codes and M arguments only the positions below
\* min(N, M) are converted from arguments, the arguments from index N on
\* play no part, the return value never exceeds N, and it is less than N
\* when a mandatory code sits at a position that has no argument
C27_ConvertsWithinBounds ==
    Returned =>
        /\ pret <= Len(fmt)
        /\ pret = StopPos - 1
        /\ \A j \in 1..Len(fmt) :
              out[j] = IF j >= StopPos THEN Unset
                       ELSE IF j \in Supplied THEN Convert(fmt[j], args[j])
                       ELSE Default(fmt[j], dflt)
        /\ (\E j \in (Len(args) + 1)..Len(fmt) : fmt[j] \in Mandatory)
              => pret < Len(fmt)

\* one code and two arguments: the first is converted, the second ignored
C27_Witness ==
    /\ Returned /\ Len(fmt) = 1 /\ Len(args) = 2
    /\ pret = 1 /\ out[1] = Convert(fmt[1], args[1])
    /\ ~Accepts(fmt[1], args[2])

\* C9: True or False at a position whose code asks for an integer is not
\* converted: the conversion has stopped at that position or before it
IsBoolHandle(o) == o.ptr \in {PBOOL_TRUE, PBOOL_FALSE}
C9_BoolIsNoInteger ==
    Returned =>
        \A j \in Supplied :
            (IsBoolHandle(args[j]) /\ fmt[j] \in {"l", "L", "i", "I"})
            => (pret <= j - 1 /\ out[j] = Unset)

\* "is" with [True, "x"] returns 0
C9_Witness ==
    /\ Returned /\ fmt = <<"i", "s">> /\ Len(args) = 2
    /\ args[1].ptr = PBOOL_TRUE /\ args[2].bytes = <<120>>
    /\ pret = 0 /\ out[1] = Unset

-----------------------------------------------------------------------------
(* Properties of the small integers *)

\* C10: for x in the 30 bit signed range PSMALLINT_VALUE(PSMALLINT_NEW(x))
\* is x, and PSMALLINT_NEW(x) is a tagged handle of type PSMALLINT
C10_SmallIntRoundTrip ==
    (npc = "dec" /\ x >= MinSmallInt /\ x <= MaxSmallInt)
    => (val = x /\ IS_TAGGED(hnd) /\ TAGTYPE(hnd) = PSMALLINT)

C10_Witness ==
    /\ npc = "dec" /\ x = MinSmallInt /\ val = x /\ IS_TAGGED(hnd)

-----------------------------------------------------------------------------
(* Properties of the handles and of the creation functions *)

InRange(v) == MinSmallInt <= v /\ v <= MaxSmallInt
HeapPtrs == {heap[i].ptr : i \in 1..Len(heap)}
Immediates ==
    {PSMALLINT_NEW(v) : v \in {w \in IntSamples : InRange(w)}} \cup
    {PBOOL_TRUE, PBOOL_FALSE, MAKE_NONE}

Fresh == heap[Len(heap)]
Created(fns) == sret.fn \in fns /\ sret.ptr # NULL /\ Fresh.ptr = sret.ptr
Store(o) == PSEQUENCE_BYTES(o)

\* C13: a sequence fresh from psequence_new(type, n) has
\* PSEQUENCE_ELEMENTS <= PSEQUENCE_SIZE, and PSEQUENCE_ELEMENTS = n when the
\* type is immutable
C13_FreshElementsWithinSize ==
    Created({"psequence_new"})
    => /\ PTYPE(Fresh) = sret.type
       /\ PSEQUENCE_ELEMENTS(Fresh) <= PSEQUENCE_SIZE(Fresh)
       /\ sret.type \notin MutableTypes => PSEQUENCE_ELEMENTS(Fresh) = sret.n

\* an immutable sequence of 16 bit words of the largest length
C13_Witness ==
    Created({"psequence_new"}) /\ sret.type = PSHORTS /\ sret.n = MaxLen

\* C14: psequence_new gives a mutable sequence no elements, room for at
\* least n and storage of zeros, and an immutable one n slots of zeros; the
\* p*_new functions give n slots holding the n elements of the buffer in
\* order, or zeros without a buffer
C14_FreshStorage ==
    /\ (Created({"psequence_new"}) /\ sret.type \in MutableTypes)
        => /\ PSEQUENCE_ELEMENTS(Fresh) = 0
           /\ PSEQUENCE_SIZE(Fresh) >= sret.n
           /\ Len(Store(Fresh)) = PSEQUENCE_SIZE(Fresh)
           /\ \A i \in 1..PSEQUENCE_SIZE(Fresh) : Store(Fresh)[i] = 0
    /\ (Created({"psequence_new"}) /\ sret.type \notin MutableTypes)
        => /\ Len(Store(Fresh)) = sret.n
           /\ \A i \in 1..sret.n : Store(Fresh)[i] = 0
    /\ Created({"pstring_new", "pbytes_new", "pshorts_new", "ptuple_new"})
        => /\ PTYPE(Fresh) = sret.type
           /\ Len(Store(Fresh)) = sret.n
           /\ \A i \in 1..sret.n :
                Store(Fresh)[i] =
                    IF sret.buf = 0 THEN 0
                    ELSE CallerBuf(sret.type, sret.buf, i)

\* a tuple made from a buffer of the largest length
C14_Witness ==
    /\ Created({"ptuple_new"}) /\ sret.n = MaxLen /\ sret.buf # 0
    /\ PTUPLE_ITEM(Fresh, 1) = PBOOL_TRUE

\* C15: plist_new(len, buf) returns a PLIST with len elements, whose items
\* 0..len-1 are the len objects of buf when buf is not NULL
C15_ListFromBuffer ==
    Created({"plist_new"})
    => /\ PTYPE(Fresh) = PLIST
       /\ PTYPE(Fresh) \in MutableTypes /\ PTYPE(Fresh) \in ObjectTypes
       /\ PSEQUENCE_ELEMENTS(Fresh) = sret.n
       /\ PSEQUENCE_SIZE(Fresh) >= sret.n
       /\ sret.buf # 0
            => \A i \in 0..(sret.n - 1) :
                 PLIST_ITEM(Fresh, i) = CallerBuf(PLIST, sret.buf, i + 1)

\* a list of the largest length made from a buffer
C15_Witness ==
    /\ Created({"plist_new"}) /\ sret.n = MaxLen /\ sret.buf # 0
    /\ PSEQUENCE_ELEMENTS(Fresh) = MaxLen

CreationFns ==
    { "psequence_new", "pstring_new", "pbytes_new", "pshorts_new",
      "ptuple_new", "plist_new", "pdict_new", "pset_new" }

Within(h, s) ==
    /\ PSEQUENCE_ELEMENTS(h[s]) <= PSEQUENCE_SIZE(h[s])
    /\ h[s].type \notin MutableTypes
         => PSEQUENCE_ELEMENTS(h[s]) = PSEQUENCE_SIZE(h[s])
AllWithin(h) == \A s \in 1..Len(h) : h[s].type \in SeqTypes => Within(h, s)

KeepsContract ==
    \A s \in SeqsOnHeap : \A n \in Counts(s) :
        PSEQUENCE_ELEMENTS_SET(s, n)
        => heap[s].type \in MutableTypes /\ n <= PSEQUENCE_SIZE(heap[s])

-----------------------------------------------------------------------------
(* Properties of the result codes and of the I2C calls *)

C18_VhalNegatesErr ==
    /\ VhalCode("VHAL_OK") = 0
    /\ \A v \in VhalNames \ {"VHAL_OK"} :
        /\ VhalDefined(v)
        /\ VhalCode(v) <= 0
        /\ -VhalCode(v) = ErrNumber(VhalException(v))

\* C20: vhalI2CWrite(i2c, tx, txlen, timeout) runs vhalI2CTransmit with the
\* same bus, buffer and timeout, the caller's txlen as the length to send,
\* no receive buffer and nothing to receive
C20_WriteIsTransmit ==
    (icall.fn = "vhalI2CWrite")
    => /\ ipc # "nobuild"
       /\ xfer = I2CArgs(icall.args.i2c, icall.args.tx, icall.args.txlen,
                         NULL, 0, icall.args.timeout)

\* C21: a call of vhalI2CRead or vhalI2CTransmit returns: after the last
\* byte with VHAL_OK, on a bus error, or with VHAL_TIMEOUT_ERROR when the
\* bus has been inactive for timeout; while the caller waits another thread
\* can run
C21_TransferReturns ==
    /\ (ipc = "xfer") ~> (ipc = "ret")
    /\ [](ipc = "ret" =>
            /\ vret = VhalCode("VHAL_OK") => left = 0
            /\ vret = VhalCode("VHAL_TIMEOUT_ERROR")
                  => left > 0 /\ idle = xfer.timeout)
    /\ []((ipc = "xfer" /\ left > 0 /\ idle = xfer.timeout)
            => ENABLED TransferEnd("VHAL_TIMEOUT_ERROR"))
    /\ [](ipc = "xfer" => ENABLED OtherRun)

\* a read of one byte has returned the timeout code after the bus was
\* inactive for the timeout, and another thread has run meanwhile
C21_Witness ==
    /\ ipc = "ret" /\ icall.fn = "vhalI2CRead"
    /\ vret = VhalCode("VHAL_TIMEOUT_ERROR")
    /\ xfer.timeout = 1 /\ idle = 1 /\ left = 1 /\ oth = 1

-----------------------------------------------------------------------------
(* Properties of the serial configuration word *)

\* C30: for fields in 0..15, every accessor of SERIAL_CFG reads back the
\* field that was packed: parity, stop, bits, hw and other
C30_SerialCfgRoundTrip ==
    cpc = "get" => sget = sfld

-----------------------------------------------------------------------------
(* Properties of rehash, probing, the element count and iteration *)

LiveKeys(t) == {t[i].k : i \in {j \in 1..Len(t) : t[j].st = "live"}}
HasTombstone(t) == \E i \in 1..Len(t) : t[i].st = "tomb"
HasEmpty(t) == \E i \in 1..Len(t) : t[i].st = "empty"

\* C23: when a put rehashes, the new table has at least twice the capacity
\* of the old one and no tombstone, it holds every entry of the old table,
\* and the entry of the put is stored in the new table, so the rehash is
\* complete when the entry becomes visible
C23_RehashOnPut ==
    rh.done =>
        /\ Len(rh.after) >= 2 * Len(rh.before)
        /\ ~HasTombstone(rh.after)
        /\ LiveKeys(rh.after) = LiveKeys(rh.before)
        /\ \A k \in LiveKeys(rh.before) : phash_get(rh.after, k) # NULL
        /\ Len(table) = Len(rh.after)
        /\ ~HasTombstone(table)
        /\ ret.op \in {"put", "new"} =>
              /\ table = phash_insert(rh.after, ret.k, ret.val)
              /\ phash_get(table, ret.k) = ret.val

\* a put into a table of three slots that holds a tombstone has rehashed
C23_Witness ==
    /\ rh.done /\ ret.op = "put"
    /\ Len(rh.before) = 3 /\ HasTombstone(rh.before)
    /\ Len(table) = 6 /\ PHASH_LIVE(table) = 3

\* the fixed probing sequence of key k: the slots in the order a probe
\* visits them, and the places of that sequence where a probe ends
ProbePath(t, k) == [j \in 1..Len(t) |-> (phash_slot(t, k) + j - 1) % Len(t)]
SlotAt(t, k, j) == t[ProbePath(t, k)[j] + 1]
Matches(s, k) == s.st = "live" /\ s.k = k
GetEnds(t, k) ==
    {j \in 1..Len(t) : SlotAt(t, k, j).st = "empty" \/ Matches(SlotAt(t, k, j), k)}
PutEnds(t, k) ==
    {j \in 1..Len(t) : SlotAt(t, k, j).st # "live" \/ Matches(SlotAt(t, k, j), k)}
First(S) == CHOOSE j \in S : \A i \in S : j <= i

PutCounts(k) ==
    elements' = elements + (IF k \in LiveKeys(table) THEN 0 ELSE 1)
DelCounts(k) ==
    elements' = elements - (IF k \in LiveKeys(table) THEN 1 ELSE 0)

\* C25: PHASH_ELEMENTS is the number of live entries and never exceeds
\* PHASH_SIZE; a put of a new key adds one, a put of a key already present
\* leaves it unchanged, a delete of a present key takes one off, a delete of
\* an absent key leaves it unchanged; a set built from items with a repeat
\* counts each item once
C25_ElementsCountEntries ==
    /\ [](/\ elements = PHASH_LIVE(table)
          /\ elements <= PHASH_SIZE(table)
          /\ (htype = PFSET /\ built) => elements = Cardinality(LiveKeys(table)))
    /\ [][\A k \in Keys :
            /\ (\E v \in Vals : Put(k, IF htype = PSET THEN k ELSE v)) => PutCounts(k)
            /\ FsetAdd(k) => PutCounts(k)
            /\ Del(k) => DelCounts(k)]_vars

SlotOrder(seq, t) ==
    /\ Len(seq) = PHASH_LIVE(t)
    /\ \A a \in 1..Len(seq) :
          /\ t[seq[a].slot + 1] = LiveSlot(seq[a].k, seq[a].v)
          /\ \A b \in (a + 1)..Len(seq) : seq[a].slot < seq[b].slot

-----------------------------------------------------------------------------
(* Properties of a collection shared by threads *)

\* C28: when every put, delete and get is made under the one lock, in every
\* interleaving of the threads the collection holds no key twice, its
\* element count is the number of live entries, its load is within the
\* threshold, and a get returns the value of the latest put in lock order
C28_SerializedAccess ==
    /\ ~Duplicate(table)
    /\ elements = PHASH_LIVE(table)
    /\ PHASH_LIVE(table) * LoadDen <= LoadNum * PHASH_SIZE(table)
    /\ \A k \in Keys : phash_get(table, k) = abs[k]

====
